---- MODULE Spec2Model ----
(***************************************************************************)
(* Model of the snaily-cadv4 controllers and of one client component:     *)
(*   - WeaponController (getCitizenWeapons, registerWeapon, updateWeapon,  *)
(*     deleteWeapon, generateOrValidateSerialNumber),                      *)
(*   - NameChangeRequestController.requestNameChange,                      *)
(*   - getActiveOfficer,                                                   *)
(*   - the WarrantsTab component (its handlers and deleteWarrant).         *)
(* Every await on a prisma call is one atomic database step; the           *)
(* synchronous code that follows it, up to the next await, belongs to the  *)
(* same step.  Handlers of different requests interleave at these steps.   *)
(***************************************************************************)
EXTENDS Integers, Sequences, FiniteSets, TLC

VARIABLES
    weapons,        \* table Weapon: set of records
    weaponValues,   \* table WeaponValue: set of records [id, value]
    nextWeaponId,   \* ids are fresh uuids: a counter, never reused
    nextValueId,
    cad,            \* the CAD's settings (ctx "cad"): its enabled features
    req,            \* per request slot of the weapon controller: the handler's
                    \* parameters, locals and position
    nameChangeRequests,   \* table NameChangeRequest: set of records
    nextRequestId,
    nreq,           \* per request slot of the name-change controller
    officers,       \* table Officer: officer id -> record
    combinedLeoUnits,     \* table CombinedLeoUnit: set of records
    unitInactivityTimeout,   \* cad.miscCadSettings.unitInactivityTimeout (0: not set)
    oreq,           \* the getActiveOfficer call: inputs, locals, context, outcome
    greq,           \* the getCitizenWeapons call: inputs, locals, position, outcome
    warrants,       \* WarrantsTab: the displayed list (React state), warrant ids
    tempId,         \* WarrantsTab: useTemporaryItem's tempId
    openModals,     \* useModal: the ids of the open modals
    fetches,        \* deleteWarrant calls awaiting execute: [n, id, json]
    nextFetch,      \* DELETE requests issued so far, plus one
    hasManagePermissions   \* hasPermissions([ManageCourthouseWarrants])

wvars == <<weapons, weaponValues, nextWeaponId, nextValueId, cad, req>>

nvars == <<nameChangeRequests, nextRequestId, nreq>>

ovars == <<officers, combinedLeoUnits, unitInactivityTimeout, oreq>>

gvars == <<greq>>

tvars == <<warrants, tempId, openModals, fetches, nextFetch, hasManagePermissions>>

vars == <<wvars, nvars, ovars, gvars, tvars>>

(* ------------------------------ bounds -------------------------------- *)
MaxWeapons == 2      \* weapon records created in one run
MaxValues == 2       \* weaponValue records created in one run
MaxRequests == 2     \* name-change requests created in one run
MaxTime == 2         \* timestamps are 1..MaxTime, timeouts 0..MaxTime, now is MaxTime + 1
QueryCap == 2        \* the per-call query counter saturates here ("2 or more")
MaxDeletes == 2      \* DELETE /warrants requests issued in one run

(* ------------------------- program constants -------------------------- *)
SERIAL_NUMBER_LENGTH == 10
MAX_ITEMS_PER_TABLE_PAGE == 12

Procs == {"p1", "p2"}
Users == {"u1", "u2"}
UserOf == [p \in Procs |-> "u1"]     \* ctx "user": both slots serve requests of user u1
LeoUsers == {"u1"}                   \* users with LEO permissions

\* table Citizen (no handler of these controllers writes it)
Citizens ==
    {[id |-> "c1", userId |-> "u1", name |-> "Ann", surname |-> "Lee Roy"],
     [id |-> "c2", userId |-> "u2", name |-> "Bo", surname |-> "Roy"]}
CitizenIdInputs == {"c1", "c2", "c0"}            \* "c0": no such citizen

\* a serial number is a sequence of characters
Null == <<"null">>                               \* null / undefined (not a string)
EmptyString == <<>>
GenChars == {"a", "b"}
ExplicitSerials == {<<"a">>, <<"A">>}
SerialInputs == {Null, EmptyString} \cup ExplicitSerials

RegistrationStatuses == {"rs1"}                 \* data.registrationStatus
InitialValues == {[id |-> "wv0", value |-> "rifle"]}
ModelInputs == {"wv0", "Rifle"}                  \* data.model: an id, or a free text

NoId == 0
NoUser == "-"                                    \* citizen?.userId / weapon?.userId undefined

(* ------------------------------ helpers ------------------------------- *)

\* String.prototype.toLowerCase on one character
ToLowerChar(c) == CASE c = "A" -> "a" [] c = "B" -> "b" [] c = "R" -> "r" [] OTHER -> c

ToLower(s) == [i \in 1..Len(s) |-> ToLowerChar(s[i])]

\* mutant: the comparison forgets mode: "insensitive"
InsensitiveEquals_Exact(s, t) == s = t

\* prisma: { mode: "insensitive", equals: t }
InsensitiveEquals(s, t) == ToLower(s) = ToLower(t)

\* utils/generateString(length): the strings it can return
GenerateString(length) == {[i \in 1..length |-> c] : c \in GenChars}

\* JS truthiness of an optional string
Truthy(s) == s # Null /\ s # EmptyString

\* a || null
OrNull(s) == IF Truthy(s) THEN s ELSE Null

\* lib/citizen shouldCheckCitizenUserId({ cad, user })
ShouldCheckCitizenUserId(c, user) == ~(c.commonCitizenCards /\ user \in LeoUsers)

\* lib/auth canManageInvariant(ownerUserId, user, excp): TRUE when it does not throw
CanManage(owner, user) == owner # NoUser /\ owner = user

\* prisma.weapon.findFirst({ where: { serialNumber: { mode: "insensitive", equals },
\*                                    NOT: weapon ? { id: weapon.id } : undefined } })
FindBySerial(ws, serialNumber, excludeId) ==
    {w \in ws : InsensitiveEquals(w.serialNumber, serialNumber)
                /\ (excludeId # NoId => w.id # excludeId)}

WeaponById(ws, id) == {w \in ws : w.id = id}

ValueById(vs, id) == {v \in vs : v.id = id}

\* prisma.weaponValue.findFirst({ where: { value: { value: { equals, mode: "insensitive" } } } })
\* (lower-casing over the texts of ModelInputs and InitialValues)
LowerText(t) == IF t = "Rifle" THEN "rifle" ELSE t

ValueByText(vs, text) == {v \in vs : LowerText(v.value) = LowerText(text)}

NewValueId(n) == "v" \o ToString(n)

IdleReq ==
    [op |-> "idle", pc |-> "idle", citizenId |-> "-", weaponId |-> NoId,
     model |-> "-", modelId |-> "-", serialArg |-> Null, serialNumber |-> Null,
     queries |-> 0, res |-> "-"]

Set(p, r) == req' = [req EXCEPT ![p] = r]

\* the handler has returned or thrown: its locals are gone, the response remains
\* (with the number of uniqueness queries the request made)
Done(r, result) ==
    [IdleReq EXCEPT !.op = r.op, !.pc = "done", !.res = result, !.queries = r.queries]

\* mutant: updateWeapon forgets to pass the weapon
WeaponArg_None(r) == NoId

\* the weapon argument generateOrValidateSerialNumber is called with
WeaponArg(r) == IF r.op = "update" THEN r.weaponId ELSE NoId

InFlight(ops, pcs) == Cardinality({q \in Procs : req[q].op \in ops /\ req[q].pc \in pcs})

(* ------------------------------- Init --------------------------------- *)
\* the weapon tables are empty but for the seeded weapon value; cads: the CAD settings
InitWeapons(cads) ==
    /\ weapons = {}
    /\ weaponValues = InitialValues
    /\ nextWeaponId = 1
    /\ nextValueId = 1
    /\ cad \in cads
    /\ req = [p \in Procs |-> IdleReq]

CadSettings == [customTextfieldValues : BOOLEAN, commonCitizenCards : BOOLEAN]

PlainCad == [customTextfieldValues |-> FALSE, commonCitizenCards |-> FALSE]

NameInputs == {"Ann", "Ann Lee"}
SurnameInputs == {"Lee Roy", "Roy"}

IdleNameReq ==
    [pc |-> "idle", user |-> "-", citizenId |-> "-", newName |-> "-", newSurname |-> "-",
     res |-> "-"]

\* the handler has returned or thrown; the request (user, body) is kept with its outcome
NameDone(r, result) == [r EXCEPT !.pc = "done", !.res = result]

PendingRequests(rs, citizenId, userId) ==
    {r \in rs : r.citizenId = citizenId /\ r.userId = userId /\ r.status = "PENDING"}

InitNameChange ==
    /\ nameChangeRequests = {}
    /\ nextRequestId = 1
    /\ nreq = [p \in Procs |-> IdleNameReq]

(* -------------------------- getCitizenWeapons ------------------------- *)
GetUser == "u1"                                  \* ctx "user" of the call
SkipInputs == {0, 1}                             \* ?skip=
QueryInputs == {Null, <<"A">>, <<"i">>}          \* ?query= (Null: not given)

IdleGetReq ==
    [pc |-> "idle", citizenId |-> "-", skip |-> 0, query |-> Null,
     counted |-> FALSE, found |-> FALSE, totalCount |-> 0, weapons |-> <<>>, res |-> "-"]

InitGet == greq = IdleGetReq

(* ----------------------------- WarrantsTab ---------------------------- *)
WarrantIds == {"w1", "w2"}
NoWarrant == "null"                              \* tempId null, tempWarrant null
ModalIds == {"AlertDeleteCourthousePost", "ManageCourthousePost"}
JsonKinds == {"boolean", "other"}                \* typeof of the response body

\* the component is mounted with props.warrants; nothing is selected or open
InitTab(lists, permissions) ==
    /\ warrants \in lists
    /\ tempId = NoWarrant
    /\ openModals = {}
    /\ fetches = {}
    /\ nextFetch = 1
    /\ hasManagePermissions \in permissions

(* --------------------------- getActiveOfficer -------------------------- *)
OfficerIds == {"o1", "o2"}
NoStatus == "null"                     \* the unit has no status
ShouldDo == {"SET_ON_DUTY", "SET_OFF_DUTY"}      \* status.shouldDo
NoTime == 0 - 1                        \* lastStatusChangeTimestamp is null
NoFilter == 0 - 1                      \* getInactivityFilter returned null
NoUnit == "none"
Now == MaxTime + 1
Caller == "u1"                         \* user.id of the caller
Headers == {"absent", "true", "false"} \* req.headers["is-from-dispatch"]

IdleOfficerReq ==
    [pc |-> "idle", header |-> "absent", hasDispatchPermissions |-> FALSE,
     hasLeoPermissions |-> FALSE, ctxHad |-> FALSE, ctxHas |-> FALSE,
     combinedUnit |-> NoUnit, filter |-> NoFilter, res |-> "-", ret |-> NoUnit,
     lookups |-> 0]

InitNoOfficers ==
    /\ officers = [o \in OfficerIds |->
                     [userId |-> "u2", status |-> NoStatus, lastStatusChangeTimestamp |-> NoTime]]
    /\ combinedLeoUnits = {}
    /\ unitInactivityTimeout = 0
    /\ oreq = IdleOfficerReq

\* mutant: lt instead of lte
Lte3_Strict(a, b) == IF a = NoTime THEN "U" ELSE IF a < b THEN "T" ELSE "F"

\* SQL's three-valued logic: a comparison with NULL is unknown
Lte3(a, b) == IF a = NoTime THEN "U" ELSE IF a <= b THEN "T" ELSE "F"

Bool3(b) == IF b THEN "T" ELSE "F"

Or3(a, b) == IF a = "T" \/ b = "T" THEN "T" ELSE IF a = "U" \/ b = "U" THEN "U" ELSE "F"

Not3(a) == IF a = "T" THEN "F" ELSE IF a = "F" THEN "T" ELSE "U"

\* mutant: any value of the header counts
IsFromDispatch_AnyValue(header) == header # "absent"

\* req.headers["is-from-dispatch"]?.toString() === "true"
IsFromDispatch(header) == header = "true"

\* getInactivityFilter(cad, "unitInactivityTimeout", "lastStatusChangeTimestamp"):
\* null without a timeout, else the cutoff now - timeout
GetInactivityFilter(timeout) == IF timeout = 0 THEN NoFilter ELSE Now - timeout

\* where: { NOT: { status: { shouldDo: "SET_OFF_DUTY" } }, officers: { some: { userId } } }
CombinedUnitMatches(u, userId) ==
    /\ ~(u.status # NoStatus /\ u.status = "SET_OFF_DUTY")
    /\ \E o \in u.officers : officers[o].userId = userId

\* the filters array: off duty, no status, and with a timeout the inactive ones
OfficerFilters(o, filter) ==
    LET base == Or3(Bool3(o.status # NoStatus /\ o.status = "SET_OFF_DUTY"),
                    Bool3(o.status = NoStatus))
    IN  IF filter # NoFilter
          THEN Or3(base, Lte3(o.lastStatusChangeTimestamp, filter))
          ELSE base

\* where: { userId: user.id, NOT: { OR: filters } }
OfficerMatches(o, userId, filter) ==
    o.userId = userId /\ Not3(OfficerFilters(o, filter)) = "T"

\* mutant: officer ?? combinedUnit
Coalesce_OfficerFirst(combinedUnit, officer) ==
    IF officer # NoUnit THEN officer ELSE combinedUnit

\* combinedUnit ?? officer
Coalesce(combinedUnit, officer) == IF combinedUnit # NoUnit THEN combinedUnit ELSE officer

OfficerDone(r, result, ret) == [r EXCEPT !.pc = "done", !.res = result, !.ret = ret]

\* the permission gate, lines 50-78
GetActiveOfficer_Gate ==
    /\ oreq.pc = "idle"
    /\ \E header \in Headers, hasDispatchPermissions \in BOOLEAN,
          hasLeoPermissions \in BOOLEAN, ctxHad \in BOOLEAN :
        LET r == [IdleOfficerReq EXCEPT !.header = header,
                    !.hasDispatchPermissions = hasDispatchPermissions,
                    !.hasLeoPermissions = hasLeoPermissions,
                    !.ctxHad = ctxHad, !.ctxHas = ctxHad]
        IN  IF IsFromDispatch(header)
              THEN IF ~hasDispatchPermissions
                     THEN oreq' = OfficerDone(r, "Unauthorized", NoUnit)
                     ELSE oreq' = OfficerDone(r, "null", NoUnit)
              ELSE IF ~hasLeoPermissions
                     THEN oreq' = OfficerDone(r, "Forbidden", NoUnit)
                     ELSE oreq' = [r EXCEPT !.pc = "findCombinedUnit"]
    /\ UNCHANGED <<officers, combinedLeoUnits, unitInactivityTimeout, wvars, nvars, gvars, tvars>>

\* prisma.combinedLeoUnit.findFirst
GetActiveOfficer_FindCombinedUnit ==
    /\ oreq.pc = "findCombinedUnit"
    /\ LET found == {u \in combinedLeoUnits : CombinedUnitMatches(u, Caller)}
       IN  \E id \in (IF found = {} THEN {NoUnit} ELSE {u.id : u \in found}) :
             oreq' = [oreq EXCEPT !.pc = "findCad", !.combinedUnit = id, !.lookups = @ + 1]
    /\ UNCHANGED <<officers, combinedLeoUnits, unitInactivityTimeout, wvars, nvars, gvars, tvars>>

\* prisma.cad.findFirst, getInactivityFilter
GetActiveOfficer_FindCad ==
    /\ oreq.pc = "findCad"
    /\ oreq' = [oreq EXCEPT !.pc = "findOfficer",
                            !.filter = GetInactivityFilter(unitInactivityTimeout)]
    /\ UNCHANGED <<officers, combinedLeoUnits, unitInactivityTimeout, wvars, nvars, gvars, tvars>>

\* prisma.officer.findFirst, the choice of the unit, ctx.delete
GetActiveOfficer_FindOfficer ==
    /\ oreq.pc = "findOfficer"
    /\ LET found == {o \in OfficerIds : OfficerMatches(officers[o], Caller, oreq.filter)}
           r == [oreq EXCEPT !.lookups = @ + 1]
       IN  \E officer \in (IF found = {} THEN {NoUnit} ELSE found) :
             LET activeOfficerOrCombinedUnit == Coalesce(oreq.combinedUnit, officer)
             IN  IF activeOfficerOrCombinedUnit = NoUnit
                   THEN oreq' = OfficerDone([r EXCEPT !.ctxHas = FALSE], "BadRequest", NoUnit)
                   ELSE oreq' = OfficerDone(r, IF activeOfficerOrCombinedUnit \in OfficerIds
                                                 THEN "officer" ELSE "combinedUnit",
                                            activeOfficerOrCombinedUnit)
    /\ UNCHANGED <<officers, combinedLeoUnits, unitInactivityTimeout, wvars, nvars, gvars, tvars>>

OfficerRespond ==
    /\ oreq.pc = "done"
    /\ oreq' = IdleOfficerReq
    /\ UNCHANGED <<officers, combinedLeoUnits, unitInactivityTimeout, wvars, nvars, gvars, tvars>>

(* SpecOfficer: getActiveOfficer called, again and again, on any officer and
   combined-unit tables and any inactivity timeout. *)
Statuses == {NoStatus} \cup ShouldDo

InitOfficer ==
    /\ InitWeapons({PlainCad}) /\ InitNameChange /\ InitGet /\ InitTab({<<>>}, {FALSE})
    /\ officers \in [OfficerIds -> [userId : Users, status : Statuses,
                                     lastStatusChangeTimestamp : {NoTime} \cup 1..MaxTime]]
    /\ combinedLeoUnits \in
          {{}} \cup {{[id |-> "cu1", status |-> st, officers |-> m]} :
                       st \in Statuses, m \in SUBSET OfficerIds}
    /\ unitInactivityTimeout \in 0..MaxTime
    /\ oreq = IdleOfficerReq

NextOfficer ==
    \/ GetActiveOfficer_Gate
    \/ GetActiveOfficer_FindCombinedUnit
    \/ GetActiveOfficer_FindCad
    \/ GetActiveOfficer_FindOfficer
    \/ OfficerRespond

SpecOfficer == InitOfficer /\ [][NextOfficer]_vars

(* --------------------------- registerWeapon --------------------------- *)

\* validateSchema, citizen.findUnique, the access check, isFeatureEnabled
RegisterWeapon_FindCitizen(p) ==
    /\ req[p].pc = "idle"
    /\ nextWeaponId + InFlight({"register"}, {"createValue", "findModel", "serial", "write"})
          <= MaxWeapons
    /\ \E citizenId \in CitizenIdInputs, model \in ModelInputs, serialNumber \in SerialInputs :
        LET user == UserOf[p]
            checkCitizenUserId == ShouldCheckCitizenUserId(cad, user)
            isCustomEnabled == cad.customTextfieldValues
            citizen == {c \in Citizens : c.id = citizenId}
            owner == IF citizen = {} THEN NoUser ELSE (CHOOSE c \in citizen : TRUE).userId
            r == [IdleReq EXCEPT !.op = "register",
                    !.citizenId = citizenId, !.model = model, !.serialArg = OrNull(serialNumber)]
            ok == IF checkCitizenUserId THEN CanManage(owner, user) ELSE citizen # {}
        IN  /\ isCustomEnabled =>
                 nextValueId + InFlight({"register", "update"}, {"createValue", "upsertValue", "findValue"})
                    <= MaxValues
            /\ IF ~ok
                 THEN Set(p, Done(r, "NotFound"))
                 ELSE IF isCustomEnabled
                        THEN Set(p, [r EXCEPT !.pc = "createValue"])
                        ELSE Set(p, [r EXCEPT !.pc = "findModel", !.modelId = model])
    /\ UNCHANGED <<weapons, weaponValues, nextWeaponId, nextValueId, cad, nvars, ovars, gvars, tvars>>

\* prisma.weaponValue.create
RegisterWeapon_CreateValue(p) ==
    /\ req[p].op = "register" /\ req[p].pc = "createValue"
    /\ weaponValues' = weaponValues \cup {[id |-> NewValueId(nextValueId), value |-> req[p].model]}
    /\ nextValueId' = nextValueId + 1
    /\ Set(p, [req[p] EXCEPT !.pc = "findModel", !.modelId = NewValueId(nextValueId)])
    /\ UNCHANGED <<weapons, nextWeaponId, cad, nvars, ovars, gvars, tvars>>

\* prisma.weaponValue.findUnique({ where: { id: modelId } })
RegisterWeapon_FindModel(p) ==
    /\ req[p].op = "register" /\ req[p].pc = "findModel"
    /\ IF ValueById(weaponValues, req[p].modelId) = {}
         THEN Set(p, Done(req[p], "model"))
         ELSE Set(p, [req[p] EXCEPT !.pc = "serial"])
    /\ UNCHANGED <<weapons, weaponValues, nextWeaponId, nextValueId, cad, nvars, ovars, gvars, tvars>>

\* prisma.weapon.create
RegisterWeapon_Create(p) ==
    /\ req[p].op = "register" /\ req[p].pc = "write"
    /\ \E registrationStatus \in RegistrationStatuses :
         weapons' = weapons \cup
            {[id |-> nextWeaponId, citizenId |-> req[p].citizenId,
              registrationStatusId |-> registrationStatus,
              serialNumber |-> req[p].serialNumber,
              userId |-> UserOf[p], modelId |-> req[p].modelId]}
    /\ nextWeaponId' = nextWeaponId + 1
    /\ Set(p, Done(req[p], "ok"))
    /\ UNCHANGED <<weaponValues, nextValueId, cad, nvars, ovars, gvars, tvars>>

(* ------------------- generateOrValidateSerialNumber ------------------- *)

\* mutant: the generator returns the same string on every call
Candidates_Stuck(serialArg) ==
    IF serialArg # Null THEN {serialArg} ELSE {[i \in 1..SERIAL_NUMBER_LENGTH |-> "a"]}

\* _serialNumber ?? generateString(this.SERIAL_NUMBER_LENGTH)
Candidates(serialArg) ==
    IF serialArg # Null THEN {serialArg} ELSE GenerateString(SERIAL_NUMBER_LENGTH)

\* mutants: the collision never throws (always retries); always throws
IsExplicit_Never(serialArg) == FALSE

IsExplicit_Always(serialArg) == TRUE

\* if (_serialNumber): a caller-supplied value that collides is an error
IsExplicit(serialArg) == Truthy(serialArg)

\* one invocation with candidate serialNumber: the findFirst, then return,
\* throw, or the recursive call (which is the next step of the same slot)
GenerateOrValidate(p, serialNumber) ==
    /\ req[p].pc = "serial"
    /\ serialNumber \in Candidates(req[p].serialArg)
    /\ LET existing == FindBySerial(weapons, serialNumber, WeaponArg(req[p]))
           r == [req[p] EXCEPT !.serialNumber = serialNumber,
                               !.queries = IF @ < QueryCap THEN @ + 1 ELSE @]
       IN  IF existing = {}
             THEN Set(p, [r EXCEPT !.pc = "write"])
             ELSE IF IsExplicit(req[p].serialArg)
                    THEN Set(p, Done(r, "serialNumberInUse"))
                    ELSE Set(p, r)
    /\ UNCHANGED <<weapons, weaponValues, nextWeaponId, nextValueId, cad, nvars, ovars, gvars, tvars>>

GenerateOrValidateSerialNumber(p) ==
    \E serialNumber \in ExplicitSerials \cup GenerateString(SERIAL_NUMBER_LENGTH) :
        GenerateOrValidate(p, serialNumber)

(* ---------------------------- updateWeapon ---------------------------- *)

\* after modelId is known: the serialNumber argument of prisma.weapon.update
AfterModel(r) == IF Truthy(r.serialArg) THEN [r EXCEPT !.pc = "serial"] ELSE [r EXCEPT !.pc = "write"]

\* validateSchema, weapon.findUnique, the access check, isFeatureEnabled
UpdateWeapon_FindWeapon(p) ==
    /\ req[p].pc = "idle"
    /\ \E weaponId \in 1..MaxWeapons, model \in ModelInputs, serialNumber \in SerialInputs :
        LET user == UserOf[p]
            checkCitizenUserId == ShouldCheckCitizenUserId(cad, user)
            isCustomEnabled == cad.customTextfieldValues
            weapon == WeaponById(weapons, weaponId)
            owner == IF weapon = {} THEN NoUser ELSE (CHOOSE w \in weapon : TRUE).userId
            r == [IdleReq EXCEPT !.op = "update",
                    !.weaponId = weaponId, !.model = model, !.serialArg = OrNull(serialNumber)]
            ok == IF checkCitizenUserId THEN CanManage(owner, user) ELSE weapon # {}
        IN  /\ isCustomEnabled =>
                 nextValueId + InFlight({"register", "update"}, {"createValue", "upsertValue", "findValue"})
                    <= MaxValues
            /\ IF ~ok
                 THEN Set(p, Done(r, "NotFound"))
                 ELSE IF isCustomEnabled
                        THEN Set(p, [r EXCEPT !.pc = "findValue"])
                        ELSE Set(p, AfterModel([r EXCEPT !.modelId = model]))
    /\ UNCHANGED <<weapons, weaponValues, nextWeaponId, nextValueId, cad, nvars, ovars, gvars, tvars>>

\* prisma.weaponValue.findFirst by value, case-insensitively
UpdateWeapon_FindValue(p) ==
    /\ req[p].op = "update" /\ req[p].pc = "findValue"
    /\ LET found == ValueByText(weaponValues, req[p].model)
       IN  IF found = {}
             THEN Set(p, [req[p] EXCEPT !.pc = "upsertValue", !.modelId = "undefined"])
             ELSE \E v \in found : Set(p, [req[p] EXCEPT !.pc = "upsertValue", !.modelId = v.id])
    /\ UNCHANGED <<weapons, weaponValues, nextWeaponId, nextValueId, cad, nvars, ovars, gvars, tvars>>

\* prisma.weaponValue.upsert({ where: { id: String(weaponModel?.id) }, update: {}, create })
UpdateWeapon_UpsertValue(p) ==
    /\ req[p].op = "update" /\ req[p].pc = "upsertValue"
    /\ IF ValueById(weaponValues, req[p].modelId) # {}
         THEN /\ Set(p, AfterModel(req[p]))
              /\ UNCHANGED <<weaponValues, nextValueId, cad, nvars, ovars, gvars, tvars>>
         ELSE /\ weaponValues' = weaponValues \cup
                     {[id |-> NewValueId(nextValueId), value |-> req[p].model]}
              /\ nextValueId' = nextValueId + 1
              /\ Set(p, AfterModel([req[p] EXCEPT !.modelId = NewValueId(nextValueId)]))
    /\ UNCHANGED <<weapons, nextWeaponId, cad, nvars, ovars, gvars, tvars>>

\* the record prisma.weapon.update writes: serialNumber undefined leaves the column alone
Updated(w, r, registrationStatus) ==
    [w EXCEPT !.modelId = r.modelId,
              !.registrationStatusId = registrationStatus,
              !.serialNumber = IF Truthy(r.serialArg) THEN r.serialNumber ELSE @]

\* prisma.weapon.update({ where: { id: weapon.id }, data })
UpdateWeapon_Update(p) ==
    /\ req[p].op = "update" /\ req[p].pc = "write"
    /\ LET weapon == WeaponById(weapons, req[p].weaponId)
       IN  IF weapon = {} \/ ValueById(weaponValues, req[p].modelId) = {}
             THEN \* record to update not found, or foreign key modelId violated
                  /\ Set(p, Done(req[p], "databaseError"))
                  /\ UNCHANGED weapons
             ELSE \E registrationStatus \in RegistrationStatuses :
                  /\ weapons' = (weapons \ weapon) \cup
                        {Updated(w, req[p], registrationStatus) : w \in weapon}
                  /\ Set(p, Done(req[p], "ok"))
    /\ UNCHANGED <<weaponValues, nextWeaponId, nextValueId, cad, nvars, ovars, gvars, tvars>>

(* ---------------------------- deleteWeapon ---------------------------- *)

\* weapon.findUnique, the access check
DeleteWeapon_FindWeapon(p) ==
    /\ req[p].pc = "idle"
    /\ \E weaponId \in 1..MaxWeapons :
        LET user == UserOf[p]
            checkCitizenUserId == ShouldCheckCitizenUserId(cad, user)
            weapon == WeaponById(weapons, weaponId)
            owner == IF weapon = {} THEN NoUser ELSE (CHOOSE w \in weapon : TRUE).userId
            r == [IdleReq EXCEPT !.op = "delete", !.weaponId = weaponId]
            ok == IF checkCitizenUserId THEN CanManage(owner, user) ELSE weapon # {}
        IN  IF ~ok THEN Set(p, Done(r, "NotFound")) ELSE Set(p, [r EXCEPT !.pc = "write"])
    /\ UNCHANGED <<weapons, weaponValues, nextWeaponId, nextValueId, cad, nvars, ovars, gvars, tvars>>

\* prisma.weapon.delete({ where: { id: weapon.id } })
DeleteWeapon_Delete(p) ==
    /\ req[p].op = "delete" /\ req[p].pc = "write"
    /\ LET weapon == WeaponById(weapons, req[p].weaponId)
       IN  IF weapon = {}
             THEN /\ Set(p, Done(req[p], "databaseError"))
                  /\ UNCHANGED weapons
             ELSE /\ weapons' = weapons \ weapon
                  /\ Set(p, Done(req[p], "ok"))
    /\ UNCHANGED <<weaponValues, nextWeaponId, nextValueId, cad, nvars, ovars, gvars, tvars>>

\* the response is sent; the slot takes the next request
Respond(p) ==
    /\ req[p].pc = "done"
    /\ Set(p, IdleReq)
    /\ UNCHANGED <<weapons, weaponValues, nextWeaponId, nextValueId, cad, nvars, ovars, gvars, tvars>>

\* the steps taken whatever the CAD's features are
WeaponStep(p) ==
    \/ RegisterWeapon_FindCitizen(p)
    \/ RegisterWeapon_FindModel(p)
    \/ GenerateOrValidateSerialNumber(p)
    \/ RegisterWeapon_Create(p)
    \/ UpdateWeapon_FindWeapon(p)
    \/ UpdateWeapon_Update(p)
    \/ DeleteWeapon_FindWeapon(p)
    \/ DeleteWeapon_Delete(p)
    \/ Respond(p)

\* the steps taken only with CUSTOM_TEXTFIELD_VALUES enabled
CustomValueStep(p) ==
    \/ RegisterWeapon_CreateValue(p)
    \/ UpdateWeapon_FindValue(p)
    \/ UpdateWeapon_UpsertValue(p)

(* Spec: the weapon controller's requests handled concurrently, their database
   steps interleaving freely, on a CAD with no optional feature enabled (so no
   CustomValueStep is ever enabled). *)
Init == InitWeapons({PlainCad}) /\ InitNameChange /\ InitGet /\ InitTab({<<>>}, {FALSE}) /\ InitNoOfficers

Next == \E p \in Procs : WeaponStep(p)

Spec == Init /\ [][Next]_vars

(* SpecSeq: requests handled one at a time (a slot steps only while every other
   slot is idle), under every setting of the CAD's features. *)
OthersIdle(p) == \A q \in Procs \ {p} : req[q].pc = "idle"

InitSeq == InitWeapons(CadSettings) /\ InitNameChange /\ InitGet /\ InitTab({<<>>}, {FALSE}) /\ InitNoOfficers

NextSeq ==
    \E p \in Procs :
        \/ OthersIdle(p) /\ RegisterWeapon_FindCitizen(p)
        \/ OthersIdle(p) /\ RegisterWeapon_CreateValue(p)
        \/ OthersIdle(p) /\ RegisterWeapon_FindModel(p)
        \/ OthersIdle(p) /\ GenerateOrValidateSerialNumber(p)
        \/ OthersIdle(p) /\ RegisterWeapon_Create(p)
        \/ OthersIdle(p) /\ UpdateWeapon_FindWeapon(p)
        \/ OthersIdle(p) /\ UpdateWeapon_FindValue(p)
        \/ OthersIdle(p) /\ UpdateWeapon_UpsertValue(p)
        \/ OthersIdle(p) /\ UpdateWeapon_Update(p)
        \/ OthersIdle(p) /\ DeleteWeapon_FindWeapon(p)
        \/ OthersIdle(p) /\ DeleteWeapon_Delete(p)
        \/ OthersIdle(p) /\ Respond(p)

SpecSeq == InitSeq /\ [][NextSeq]_vars

(* SpecFair: Spec with a fair random generator: a string generateString can
   return is eventually returned to a call that keeps asking. *)
SpecFair ==
    /\ Spec
    /\ \A p \in Procs : \A c \in GenerateString(SERIAL_NUMBER_LENGTH) :
          WF_vars(GenerateOrValidate(p, c))

(* ------------------------- requestNameChange -------------------------- *)

\* validateSchema, citizen.findFirst({ id, userId }), the not-new check
RequestNameChange_FindCitizen(p) ==
    /\ nreq[p].pc = "idle"
    /\ nextRequestId + Cardinality({q \in Procs : nreq[q].pc \in {"findExisting", "create"}})
          <= MaxRequests
    /\ \E user \in Users, citizenId \in CitizenIdInputs,
          newName \in NameInputs, newSurname \in SurnameInputs :
        LET citizen == {c \in Citizens : c.id = citizenId /\ c.userId = user}
            r == [IdleNameReq EXCEPT !.user = user, !.citizenId = citizenId,
                                     !.newName = newName, !.newSurname = newSurname]
        IN  IF citizen = {}
              THEN nreq' = [nreq EXCEPT ![p] = NameDone(r, "citizenNotFound")]
              ELSE LET c == CHOOSE x \in citizen : TRUE
                       prevFullname == c.name \o " " \o c.surname
                       newFullname == newName \o " " \o newSurname
                   IN  IF prevFullname = newFullname
                         THEN nreq' = [nreq EXCEPT ![p] = NameDone(r, "nameChangeRequestNotNew")]
                         ELSE nreq' = [nreq EXCEPT ![p] = [r EXCEPT !.pc = "findExisting"]]
    /\ UNCHANGED <<nameChangeRequests, nextRequestId, wvars, ovars, gvars, tvars>>

\* prisma.nameChangeRequest.findFirst({ citizenId, userId, status: "PENDING" })
RequestNameChange_FindExisting(p) ==
    /\ nreq[p].pc = "findExisting"
    /\ IF PendingRequests(nameChangeRequests, nreq[p].citizenId, nreq[p].user) # {}
         THEN nreq' = [nreq EXCEPT ![p] = NameDone(nreq[p], "alreadyPendingNameChange")]
         ELSE nreq' = [nreq EXCEPT ![p].pc = "create"]
    /\ UNCHANGED <<nameChangeRequests, nextRequestId, wvars, ovars, gvars, tvars>>

\* prisma.nameChangeRequest.create; a new request's status is the column's default, PENDING
RequestNameChange_Create(p) ==
    /\ nreq[p].pc = "create"
    /\ nameChangeRequests' = nameChangeRequests \cup
          {[id |-> nextRequestId, citizenId |-> nreq[p].citizenId, userId |-> nreq[p].user,
            newName |-> nreq[p].newName, newSurname |-> nreq[p].newSurname,
            status |-> "PENDING"]}
    /\ nextRequestId' = nextRequestId + 1
    /\ nreq' = [nreq EXCEPT ![p] = NameDone(nreq[p], "ok")]
    /\ UNCHANGED <<wvars, ovars, gvars, tvars>>

NameRespond(p) ==
    /\ nreq[p].pc = "done"
    /\ nreq' = [nreq EXCEPT ![p] = IdleNameReq]
    /\ UNCHANGED <<nameChangeRequests, nextRequestId, wvars, ovars, gvars, tvars>>

(* SpecNameChange: requestNameChange requests handled concurrently. *)
NextNameChange ==
    \E p \in Procs :
        \/ RequestNameChange_FindCitizen(p)
        \/ RequestNameChange_FindExisting(p)
        \/ RequestNameChange_Create(p)
        \/ NameRespond(p)

SpecNameChange == Init /\ [][NextNameChange]_vars

(* -------------------------- getCitizenWeapons ------------------------- *)

\* the characters of the texts stored in WeaponValue.value.value
TextChars(t) ==
    CASE t = "rifle" -> <<"r", "i", "f", "l", "e">>
      [] t = "Rifle" -> <<"R", "i", "f", "l", "e">>
      [] t = "wv0" -> <<"w", "v", "0">>
      [] OTHER -> <<>>

\* the value of a registration status (table Value, read through the relation)
RegistrationStatusValue(id) == <<"o", "k">>

\* prisma: { contains: t, mode: "insensitive" }
InsensitiveContains(s, t) ==
    \E i \in 0..(Len(s) - Len(t)) : ToLower(SubSeq(s, i + 1, i + Len(t))) = ToLower(t)

\* createdAt @default(now()): records are created one at a time, in id order
CreatedAt(w) == w.id

\* the where clause: the citizen's weapons and, with a query, the OR of the
\* three contains filters
Where(w, citizenId, query) ==
    /\ w.citizenId = citizenId
    /\ Truthy(query) =>
         \/ \E v \in ValueById(weaponValues, w.modelId) :
               InsensitiveContains(TextChars(v.value), query)
         \/ InsensitiveContains(RegistrationStatusValue(w.registrationStatusId), query)
         \/ InsensitiveContains(w.serialNumber, query)

RECURSIVE OrderByCreatedAtDesc(_)
OrderByCreatedAtDesc(ws) ==
    IF ws = {} THEN <<>>
    ELSE LET newest == CHOOSE w \in ws : \A v \in ws : CreatedAt(v) <= CreatedAt(w)
         IN  <<newest>> \o OrderByCreatedAtDesc(ws \ {newest})

Min(a, b) == IF a <= b THEN a ELSE b

\* findMany's skip and take
SkipTake(s, skip, take) == SubSeq(s, skip + 1, Min(Len(s), skip + take))

\* both queries have answered: the handler returns
Answered(r) == IF r.counted /\ r.found THEN [r EXCEPT !.pc = "done", !.res = "ok"] ELSE r

\* shouldCheckCitizenUserId, citizen.findFirst({ id, userId })
GetCitizenWeapons_FindCitizen ==
    /\ greq.pc = "idle"
    /\ \E citizenId \in CitizenIdInputs, skip \in SkipInputs, query \in QueryInputs :
        LET checkCitizenUserId == ShouldCheckCitizenUserId(cad, GetUser)
            citizen == {c \in Citizens :
                          c.id = citizenId /\ (checkCitizenUserId => c.userId = GetUser)}
            r == [IdleGetReq EXCEPT !.citizenId = citizenId, !.skip = skip, !.query = query]
        IN  IF citizen = {}
              THEN greq' = [r EXCEPT !.pc = "done", !.res = "citizenNotFound"]
              ELSE greq' = [r EXCEPT !.pc = "queries"]
    /\ UNCHANGED <<wvars, nvars, ovars, tvars>>

\* Promise.all([count, findMany]): two database calls, answered in either order
\* prisma.weapon.count({ where })
GetCitizenWeapons_Count ==
    /\ greq.pc = "queries" /\ ~greq.counted
    /\ greq' = Answered([greq EXCEPT
          !.counted = TRUE,
          !.totalCount = Cardinality({w \in weapons : Where(w, greq.citizenId, greq.query)})])
    /\ UNCHANGED <<wvars, nvars, ovars, tvars>>

\* prisma.weapon.findMany({ where, take, skip, orderBy: { createdAt: "desc" } })
GetCitizenWeapons_FindMany ==
    /\ greq.pc = "queries" /\ ~greq.found
    /\ greq' = Answered([greq EXCEPT
          !.found = TRUE,
          !.weapons = SkipTake(
              OrderByCreatedAtDesc({w \in weapons : Where(w, greq.citizenId, greq.query)}),
              greq.skip, MAX_ITEMS_PER_TABLE_PAGE)])
    /\ UNCHANGED <<wvars, nvars, ovars, tvars>>

GetRespond ==
    /\ greq.pc = "done"
    /\ greq' = IdleGetReq
    /\ UNCHANGED <<wvars, nvars, ovars, tvars>>

(* SpecGet: getCitizenWeapons running while registerWeapon and deleteWeapon
   requests, themselves one at a time, are handled. *)
NextGet ==
    \/ GetCitizenWeapons_FindCitizen
    \/ GetCitizenWeapons_Count
    \/ GetCitizenWeapons_FindMany
    \/ GetRespond
    \/ \E p \in Procs :
        \/ OthersIdle(p) /\ RegisterWeapon_FindCitizen(p)
        \/ OthersIdle(p) /\ RegisterWeapon_FindModel(p)
        \/ OthersIdle(p) /\ GenerateOrValidateSerialNumber(p)
        \/ OthersIdle(p) /\ RegisterWeapon_Create(p)
        \/ OthersIdle(p) /\ DeleteWeapon_FindWeapon(p)
        \/ OthersIdle(p) /\ DeleteWeapon_Delete(p)
        \/ OthersIdle(p) /\ Respond(p)

SpecGet == Init /\ [][NextGet]_vars

(* ----------------------------- WarrantsTab ---------------------------- *)

Displayed == {warrants[i] : i \in 1..Len(warrants)}

\* useTemporaryItem(warrants): the item of the list whose id is tempId, or null
TempWarrant == IF tempId \in Displayed THEN tempId ELSE NoWarrant

\* mutant: any response body counts
IsBoolean_Always(json) == TRUE

\* typeof json === "boolean"
IsBoolean(json) == json = "boolean"

\* p.filter((v) => v.id !== id)
RECURSIVE Filter(_, _)
Filter(list, id) ==
    IF list = <<>> THEN <<>>
    ELSE IF Head(list) = id THEN Filter(Tail(list), id)
         ELSE <<Head(list)>> \o Filter(Tail(list), id)

\* the Manage button of a row
HandleManageClick(post) ==
    /\ hasManagePermissions /\ post \in Displayed
    /\ tempId' = post
    /\ openModals' = openModals \cup {"ManageCourthousePost"}
    /\ UNCHANGED <<warrants, fetches, nextFetch, hasManagePermissions, wvars, nvars, ovars, gvars>>

\* the Delete button of a row
HandleDeleteClick(post) ==
    /\ hasManagePermissions /\ post \in Displayed
    /\ tempId' = post
    /\ openModals' = openModals \cup {"AlertDeleteCourthousePost"}
    /\ UNCHANGED <<warrants, fetches, nextFetch, hasManagePermissions, wvars, nvars, ovars, gvars>>

\* the header's button: openModal(ManageCourthousePost), no selection made
AddClick ==
    /\ hasManagePermissions
    /\ "ManageCourthousePost" \notin openModals
    /\ openModals' = openModals \cup {"ManageCourthousePost"}
    /\ UNCHANGED <<warrants, tempId, fetches, nextFetch, hasManagePermissions,
                   wvars, nvars, ovars, gvars>>

\* a modal is closed (AlertModal's cancel, CreateWarrantModal's close): the modal
\* leaves the open ones and its onClose runs, warrantState.setTempId(null)
CloseModal(id) ==
    /\ hasManagePermissions /\ id \in openModals
    /\ openModals' = openModals \ {id}
    /\ tempId' = NoWarrant
    /\ UNCHANGED <<warrants, fetches, nextFetch, hasManagePermissions, wvars, nvars, ovars, gvars>>

\* AlertModal's onDeleteClick: deleteWarrant up to its await
DeleteWarrant ==
    /\ hasManagePermissions /\ "AlertDeleteCourthousePost" \in openModals
    /\ nextFetch <= MaxDeletes
    /\ IF TempWarrant = NoWarrant
         THEN UNCHANGED <<fetches, nextFetch>>
         ELSE /\ fetches' = fetches \cup {[n |-> nextFetch, id |-> TempWarrant, json |-> "pending"]}
              /\ nextFetch' = nextFetch + 1
    /\ UNCHANGED <<warrants, tempId, openModals, hasManagePermissions, wvars, nvars, ovars, gvars>>

\* execute's request is answered: a boolean body, or anything else (an error)
Execute_Answer(f, json) ==
    /\ f \in fetches /\ f.json = "pending"
    /\ fetches' = (fetches \ {f}) \cup {[f EXCEPT !.json = json]}
    /\ UNCHANGED <<warrants, tempId, openModals, nextFetch, hasManagePermissions,
                   wvars, nvars, ovars, gvars>>

\* deleteWarrant after its await, with the tempWarrant it was called with
DeleteWarrant_Resume(f) ==
    /\ f \in fetches /\ f.json # "pending"
    /\ fetches' = fetches \ {f}
    /\ IF IsBoolean(f.json)
         THEN /\ warrants' = Filter(warrants, f.id)
              /\ tempId' = NoWarrant
              /\ openModals' = openModals \ {"AlertDeleteCourthousePost"}
         ELSE UNCHANGED <<warrants, tempId, openModals>>
    /\ UNCHANGED <<nextFetch, hasManagePermissions, wvars, nvars, ovars, gvars>>

(* SpecTab: the WarrantsTab component under any sequence of clicks, closes,
   confirmations and answers. *)
InitialLists == {<<>>, <<"w1", "w2">>}

InitWarrantsTab ==
    /\ InitWeapons({PlainCad}) /\ InitNameChange /\ InitGet /\ InitNoOfficers
    /\ InitTab(InitialLists, BOOLEAN)

NextTab ==
    \/ \E post \in WarrantIds : HandleManageClick(post)
    \/ \E post \in WarrantIds : HandleDeleteClick(post)
    \/ AddClick
    \/ \E id \in ModalIds : CloseModal(id)
    \/ DeleteWarrant
    \/ \E f \in fetches : \E json \in JsonKinds : Execute_Answer(f, json)
    \/ \E f \in fetches : DeleteWarrant_Resume(f)

SpecTab == InitWarrantsTab /\ [][NextTab]_vars

(* ============================== claims =============================== *)

SameSerial(s, t) == ToLower(s) = ToLower(t)

Stepped(p) == req'[p] # req[p]

\* C1: in every reachable state of the concurrent controller no two distinct
\* weapons have serial numbers that are equal case-insensitively.
C1_SerialNumbersUnique ==
    \A w1 \in weapons : \A w2 \in weapons :
        w1.id # w2.id => ~SameSerial(w1.serialNumber, w2.serialNumber)

\* C2: in every reachable state each citizen has at most one NameChangeRequest
\* with status PENDING, also when requests for the same citizen interleave.
C2_OnePendingPerCitizen ==
    \A c \in Citizens :
        Cardinality({r \in nameChangeRequests : r.citizenId = c.id /\ r.status = "PENDING"}) <= 1

\* C3: a registerWeapon whose explicit serial number equals, case-insensitively,
\* that of a weapon existing when the uniqueness query runs ends with the error
\* serialNumber: serialNumberInUse, and the request creates no weapon: its query
\* step leaves the table alone and a finished request takes no further step on it.
C3_ExplicitDuplicateRejected ==
    [][\A p \in Procs :
         /\ (/\ req[p].op = "register" /\ req[p].pc = "serial" /\ Stepped(p)
             /\ req[p].serialArg # Null
             /\ \E w \in weapons : SameSerial(w.serialNumber, req[p].serialArg))
            => (/\ req'[p].pc = "done" /\ req'[p].res = "serialNumberInUse"
                /\ weapons' = weapons /\ nextWeaponId' = nextWeaponId)
         /\ (req[p].pc = "done" /\ Stepped(p))
            => (req'[p] = IdleReq /\ weapons' = weapons /\ nextWeaponId' = nextWeaponId)
      ]_vars

C3_Witness ==
    \E p \in Procs :
        req[p].op = "register" /\ req[p].pc = "done" /\ req[p].res = "serialNumberInUse"

\* C4: a call without an explicit serial number never ends with serialNumberInUse;
\* a query step of such a call either finds its generated candidate in use and
\* stays in the call (the next step generates and checks again), or returns the
\* candidate, which is a generated string of length SERIAL_NUMBER_LENGTH that no
\* weapon had when the query ran.
C4_GeneratedSerial ==
    [][\A p \in Procs :
         (req[p].pc = "serial" /\ req[p].serialArg = Null /\ Stepped(p))
         => LET cand == req'[p].serialNumber
                inUse == \E w \in weapons : SameSerial(w.serialNumber, cand)
            IN  /\ cand \in GenerateString(SERIAL_NUMBER_LENGTH)
                /\ Len(cand) = SERIAL_NUMBER_LENGTH
                /\ req'[p].res # "serialNumberInUse"
                /\ inUse => req'[p].pc = "serial" /\ req'[p].serialArg = Null
                /\ ~inUse => req'[p].pc = "write"
      ]_vars

C4_Witness ==
    \E p \in Procs :
        /\ req[p].op = "register" /\ req[p].pc = "write" /\ req[p].serialArg = Null
        /\ req[p].queries >= 2

\* C9: with requests handled one at a time, from the empty (hence unique) table,
\* every reachable state keeps serial numbers unique case-insensitively.
C9_SequentialUnique ==
    \A w1 \in weapons : \A w2 \in weapons :
        SameSerial(w1.serialNumber, w2.serialNumber) => w1 = w2

C9_Witness ==
    /\ Cardinality(weapons) = 2
    /\ \E p \in Procs : req[p].pc = "done" /\ req[p].res = "serialNumberInUse"

\* C5: under a fair generator a call without an explicit serial number does not
\* stay in the call for ever while some generated string stays unused; and a call
\* with an explicit serial number makes exactly one uniqueness query: none before
\* its step, one when it has returned or thrown.
C5_InCall(p) == req[p].pc = "serial" /\ req[p].serialArg = Null

C5_Unused(c) == \A w \in weapons : ~SameSerial(w.serialNumber, c)

C5_Terminates ==
    /\ \A p \in Procs : \A c \in GenerateString(SERIAL_NUMBER_LENGTH) :
          []<>~(C5_InCall(p) /\ C5_Unused(c))
    /\ [](\A p \in Procs :
            /\ (req[p].pc = "serial" /\ req[p].serialArg # Null) => req[p].queries = 0
            /\ (req[p].pc = "write" /\ req[p].serialArg # Null) => req[p].queries = 1
            /\ (req[p].pc = "done" /\ req[p].res = "serialNumberInUse") => req[p].queries = 1)

C5_Witness ==
    \E p \in Procs :
        req[p].op = "register" /\ req[p].pc = "done" /\ req[p].res = "ok" /\ req[p].queries >= 2

\* C10: updateWeapon's uniqueness query ignores the weapon being updated: the
\* submitted serial number passes exactly when no other weapon has it
\* (case-insensitively), so the weapon's own serial number in any letter case
\* passes; when another weapon has it the request ends with serialNumber:
\* serialNumberInUse and writes nothing; a write that succeeds stores the
\* submitted serial number, and with no (or an empty) serial number submitted it
\* keeps the stored one and no uniqueness query or generation takes place.
C10_UpdateSerialHandling ==
    /\ [][\A p \in Procs :
           /\ (req[p].op = "update" /\ req[p].pc = "serial" /\ Stepped(p))
              => LET others == {w \in weapons : w.id # req[p].weaponId
                                   /\ SameSerial(w.serialNumber, req[p].serialArg)}
                 IN  IF others = {}
                       THEN req'[p].pc = "write" /\ req'[p].serialNumber = req[p].serialArg
                       ELSE /\ req'[p].pc = "done" /\ req'[p].res = "serialNumberInUse"
                            /\ weapons' = weapons
           /\ (req[p].op = "update" /\ req[p].pc = "write" /\ Stepped(p))
              => IF req'[p].res = "ok"
                   THEN \E w \in weapons : \E w2 \in weapons' :
                          /\ w.id = req[p].weaponId /\ w2.id = w.id
                          /\ w2.serialNumber = IF req[p].serialArg = Null THEN w.serialNumber
                                                ELSE req[p].serialArg
                          /\ weapons' \ {w2} = weapons \ {w}
                   ELSE weapons' = weapons
           /\ (req[p].op = "update" /\ req[p].pc = "done" /\ Stepped(p))
              => weapons' = weapons
        ]_vars
    /\ [](\A p \in Procs :
            /\ (req[p].op = "update" /\ req[p].pc = "serial") => req[p].serialArg # Null
            /\ (req[p].op = "update" /\ req[p].pc = "write" /\ req[p].serialArg = Null)
               => req[p].queries = 0 /\ req[p].serialNumber = Null)

C10_Witness ==
    \E p \in Procs :
        /\ req[p].op = "update" /\ req[p].pc = "write" /\ req[p].serialArg = <<"A">>
        /\ \E w \in weapons : w.id = req[p].weaponId /\ w.serialNumber = <<"a">>

(* ------------------------ getActiveOfficer claims --------------------- *)

GateOutcomes == {"null", "Unauthorized", "Forbidden"}

\* combined units that are not off duty and contain an officer of the caller
QualifyingUnits ==
    {u \in combinedLeoUnits :
        u.status # "SET_OFF_DUTY" /\ \E o \in u.officers : officers[o].userId = Caller}

OnDuty(o) == officers[o].status \in ShouldDo \ {"SET_OFF_DUTY"}

Active(o) ==
    unitInactivityTimeout # 0
    => /\ officers[o].lastStatusChangeTimestamp # NoTime
       /\ officers[o].lastStatusChangeTimestamp > Now - unitInactivityTimeout

QualifyingOfficers ==
    {o \in OfficerIds : officers[o].userId = Caller /\ OnDuty(o) /\ Active(o)}

\* C6: the permission gate: header "true" with dispatch permission returns null
\* with no lookup made and the context untouched; header "true" without dispatch
\* permission throws Unauthorized whatever the LEO permission; any other header
\* without LEO permission throws Forbidden whatever the dispatch permission; none
\* of the three returns a unit, and only a caller that passed the gate looks up.
C6_PermissionGate ==
    /\ oreq.pc = "done" =>
         /\ (oreq.header = "true" /\ oreq.hasDispatchPermissions)
            => (oreq.res = "null" /\ oreq.lookups = 0 /\ oreq.ctxHas = oreq.ctxHad)
         /\ (oreq.header = "true" /\ ~oreq.hasDispatchPermissions)
            => oreq.res = "Unauthorized"
         /\ (oreq.header # "true" /\ ~oreq.hasLeoPermissions) => oreq.res = "Forbidden"
         /\ oreq.res \in GateOutcomes
            => (oreq.ret = NoUnit /\ oreq.lookups = 0 /\ oreq.ctxHas = oreq.ctxHad)
    /\ oreq.pc \in {"findCombinedUnit", "findCad", "findOfficer"}
         => (oreq.header # "true" /\ oreq.hasLeoPermissions)

C6_Witness ==
    /\ oreq.pc = "done" /\ oreq.res = "null" /\ oreq.ctxHad
    /\ oreq.hasLeoPermissions /\ QualifyingUnits # {} /\ QualifyingOfficers # {}

\* C7: past the gate, a qualifying combined unit is returned whenever one exists,
\* whether or not a qualifying solo officer exists; a qualifying solo officer is
\* returned only when no such unit exists; with neither, the activeOfficer entry
\* is deleted from the context and BadRequest is thrown; in every other outcome,
\* and while the call runs, the context is as the caller passed it.
C7_Precedence ==
    /\ (oreq.pc = "done" /\ oreq.res \notin GateOutcomes) =>
         /\ QualifyingUnits # {}
            => (oreq.res = "combinedUnit" /\ oreq.ret \in {u.id : u \in QualifyingUnits})
         /\ (QualifyingUnits = {} /\ QualifyingOfficers # {})
            => (oreq.res = "officer" /\ oreq.ret \in QualifyingOfficers)
         /\ (QualifyingUnits = {} /\ QualifyingOfficers = {})
            => (oreq.res = "BadRequest" /\ oreq.ret = NoUnit /\ ~oreq.ctxHas)
    /\ (oreq.pc = "done" /\ oreq.res = "BadRequest")
         => (QualifyingUnits = {} /\ QualifyingOfficers = {})
    /\ ~(oreq.pc = "done" /\ oreq.res = "BadRequest") => oreq.ctxHas = oreq.ctxHad

C7_Witness ==
    /\ oreq.pc = "done" /\ oreq.res = "combinedUnit" /\ oreq.ctxHad
    /\ QualifyingOfficers # {}

\* C8: a solo officer that is returned belongs to the caller, has a status that is
\* not SET_OFF_DUTY and, with an inactivity timeout configured, a timestamp
\* strictly later than the cutoff; without a timeout the timestamp plays no part
\* (any on-duty officer of the caller qualifies); the combined-unit lookup never
\* looks at a timestamp (a unit qualifies whatever its officers' timestamps).
C8_SoloOfficer ==
    /\ (oreq.pc = "done" /\ oreq.res = "officer") =>
         /\ oreq.ret \in OfficerIds
         /\ officers[oreq.ret].userId = Caller
         /\ officers[oreq.ret].status # NoStatus
         /\ officers[oreq.ret].status # "SET_OFF_DUTY"
         /\ unitInactivityTimeout # 0
            => /\ officers[oreq.ret].lastStatusChangeTimestamp # NoTime
               /\ officers[oreq.ret].lastStatusChangeTimestamp > Now - unitInactivityTimeout
    /\ (oreq.pc = "done" /\ oreq.res \notin GateOutcomes /\ unitInactivityTimeout = 0
          /\ QualifyingUnits = {}
          /\ \E o \in OfficerIds : officers[o].userId = Caller /\ OnDuty(o))
         => oreq.res = "officer"
    /\ (oreq.pc = "done" /\ oreq.res \notin GateOutcomes /\ QualifyingUnits # {})
         => oreq.res = "combinedUnit"

C8_Witness ==
    /\ oreq.pc = "done" /\ oreq.res = "officer" /\ unitInactivityTimeout # 0
    /\ \E o \in OfficerIds :
          /\ o # oreq.ret /\ officers[o].userId = Caller /\ OnDuty(o)
          /\ officers[o].lastStatusChangeTimestamp = Now - unitInactivityTimeout

(* ----------------------- registerWeapon's errors ---------------------- *)

RegisterErrors == {"NotFound", "model", "serialNumberInUse"}

\* the weaponValue record a registerWeapon in flight has created (newModel):
\* with CUSTOM_TEXTFIELD_VALUES its modelId is the id of the record it created
CreatedValues(p) ==
    IF req[p].op = "register" /\ cad.customTextfieldValues
          /\ req[p].pc \in {"findModel", "serial", "write"}
      THEN ValueById(weaponValues, req[p].modelId)
      ELSE {}

\* C11: with requests handled one at a time, a registerWeapon that ends in an
\* error (citizen not found or not manageable, invalid model, serial number in
\* use) leaves the database as it was before the request: the step that ends it
\* writes nothing, and none of its earlier steps has created a weaponValue
\* record, whatever the CAD's features are.
C11_FailedRegisterWritesNothing ==
    [][\A p \in Procs :
         (/\ Stepped(p) /\ req'[p].op = "register" /\ req'[p].pc = "done"
          /\ req'[p].res \in RegisterErrors)
         => /\ weapons' = weapons /\ weaponValues' = weaponValues
            /\ CreatedValues(p) = {}
      ]_vars

(* ---------------------- requestNameChange's checks -------------------- *)

NameRejections == {"citizenNotFound", "nameChangeRequestNotNew", "alreadyPendingNameChange"}

\* the citizen of the request, when the caller owns it
OwnedCitizen(r) == {c \in Citizens : c.id = r.citizenId /\ c.userId = r.user}

\* C12: a finished requestNameChange for a citizen the caller owns was rejected
\* with nameChangeRequestNotNew exactly when the requested pair (newName,
\* newSurname) equals the citizen's pair (name, surname); and a step that ends a
\* request with citizenNotFound, nameChangeRequestNotNew or
\* alreadyPendingNameChange creates no NameChangeRequest.
C12_NotNewExactlyWhenSamePair ==
    /\ [](\A p \in Procs : \A c \in OwnedCitizen(nreq[p]) :
            nreq[p].pc = "done" =>
              (nreq[p].res = "nameChangeRequestNotNew"
                 <=> (nreq[p].newName = c.name /\ nreq[p].newSurname = c.surname)))
    /\ [][\A p \in Procs :
            (nreq'[p] # nreq[p] /\ nreq'[p].pc = "done" /\ nreq'[p].res \in NameRejections)
            => nameChangeRequests' = nameChangeRequests /\ nextRequestId' = nextRequestId
         ]_vars

(* ------------------------- getCitizenWeapons' page -------------------- *)

\* C13: a page getCitizenWeapons returns holds only weapons of the requested
\* citizen that match the query, at most MAX_ITEMS_PER_TABLE_PAGE of them,
\* newest first by createdAt, and never more weapons than the totalCount
\* returned with it, also while weapons are registered and deleted.
C13_PageConsistentWithCount ==
    (greq.pc = "done" /\ greq.res = "ok") =>
        /\ \A i \in 1..Len(greq.weapons) :
              Where(greq.weapons[i], greq.citizenId, greq.query)
        /\ Len(greq.weapons) <= MAX_ITEMS_PER_TABLE_PAGE
        /\ \A i \in 1..Len(greq.weapons) : \A j \in 1..Len(greq.weapons) :
              i < j => CreatedAt(greq.weapons[i]) > CreatedAt(greq.weapons[j])
        /\ Len(greq.weapons) <= greq.totalCount

(* ------------------------ WarrantsTab's deletions --------------------- *)

\* C14: in every step of the WarrantsTab component, (1) the displayed list
\* changes only when a deleteWarrant call resumes whose DELETE was answered with a
\* boolean body; (2) such a call removes exactly the warrant it was issued for,
\* resets the temporary selection to null and closes the delete alert modal
\* (leaving the other modal alone); (3) a call that resumes on any other body
\* leaves list, selection and modals as they were; (4) a request is issued only
\* for the selected warrant, and none when no warrant of the list is selected.
C14_DeleteOnlyAfterBoolean ==
    [][/\ warrants' # warrants =>
            \E f \in fetches : f \notin fetches' /\ f.json = "boolean"
       /\ \A f \in fetches :
            (f \notin fetches' /\ f.json = "boolean") =>
                /\ warrants' = Filter(warrants, f.id)
                /\ \A w \in Displayed : w # f.id => w \in {warrants'[i] : i \in 1..Len(warrants')}
                /\ tempId' = NoWarrant
                /\ openModals' = openModals \ {"AlertDeleteCourthousePost"}
       /\ \A f \in fetches :
            (f \notin fetches' /\ f.json = "other") =>
                warrants' = warrants /\ tempId' = tempId /\ openModals' = openModals
       /\ \A f \in fetches' \ fetches :
            \/ \E g \in fetches : g.n = f.n
            \/ /\ tempId \in Displayed /\ f.id = tempId
               /\ f.json = "pending" /\ nextFetch' = nextFetch + 1
       /\ tempId \notin Displayed => nextFetch' = nextFetch
      ]_vars

\* a warrant has been removed, and another call, answered with a non-boolean
\* body, is about to resume
C14_Witness ==
    /\ Len(warrants) = 1
    /\ \E f \in fetches : f.json = "other"

====
